---------------------------- MODULE Spec2Model ----------------------------
(***************************************************************************)
(* Model of spreadsheet-safety-check: the pipeline of cli.main and         *)
(* MacroChecker (load, extract, classify, report, sanitize).               *)
(*                                                                         *)
(* Texts are sequences of symbols.  A symbol is one character, except that *)
(* the two reply markers "SCORE:" and "ANALYSIS:" are each one symbol.     *)
(***************************************************************************)
EXTENDS Integers, Sequences, FiniteSets, TLC

None == "None"

\* None where a text (a sequence of symbols) is expected
NoText == <<None>>

NL == "\n"

-----------------------------------------------------------------------------
(* Python string helpers used by the code *)

IsSpace(c) == c \in {" ", NL}

RECURSIVE LStrip(_)
LStrip(s) ==
    IF s # <<>> /\ IsSpace(Head(s)) THEN LStrip(Tail(s)) ELSE s

RECURSIVE RStrip(_)
RStrip(s) ==
    IF s # <<>> /\ IsSpace(s[Len(s)]) THEN RStrip(SubSeq(s, 1, Len(s) - 1)) ELSE s

\* str.strip()
Strip(s) == RStrip(LStrip(s))

\* index of the first occurrence of symbol c in s, 0 when absent
RECURSIVE IndexOf(_, _)
IndexOf(s, c) ==
    IF s = <<>> THEN 0
    ELSE IF Head(s) = c THEN 1
    ELSE LET r == IndexOf(Tail(s), c) IN IF r = 0 THEN 0 ELSE r + 1

\* str.split(c): the pieces of s between the occurrences of symbol c
RECURSIVE Split(_, _)
Split(s, c) ==
    LET i == IndexOf(s, c) IN
    IF i = 0 THEN <<s>>
    ELSE <<SubSeq(s, 1, i - 1)>> \o Split(SubSeq(s, i + 1, Len(s)), c)

\* str.startswith(c) for a one-symbol prefix
StartsWith(s, c) == s # <<>> /\ Head(s) = c

\* str.replace(c, ""): every occurrence of symbol c removed
Remove(s, c) == SelectSeq(s, LAMBDA x : x # c)

\* "c in s"
Contains(s, c) == IndexOf(s, c) # 0

Digits == <<"0", "1", "2", "3", "4", "5", "6", "7", "8", "9">>

IsDigit(c) == \E d \in 1..10 : Digits[d] = c

DigitValue(c) == (CHOOSE d \in 1..10 : Digits[d] = c) - 1

RECURSIVE DigitsValue(_, _)
DigitsValue(s, acc) ==
    IF s = <<>> THEN acc ELSE DigitsValue(Tail(s), 10 * acc + DigitValue(Head(s)))

\* int(s): surrounding whitespace dropped, an optional sign, then digits only.
\* ok = FALSE stands for ValueError.
ParseInt(s) ==
    LET t == Strip(s)
        signed == t # <<>> /\ Head(t) \in {"-", "+"}
        body == IF signed THEN Tail(t) ELSE t
        good == body # <<>> /\ \A i \in 1..Len(body) : IsDigit(body[i])
        mag == IF good THEN DigitsValue(body, 0) ELSE 0
    IN [ok |-> good,
        val |-> IF signed /\ Head(t) = "-" THEN 0 - mag ELSE mag]

Max(a, b) == IF a >= b THEN a ELSE b

Min(a, b) == IF a <= b THEN a ELSE b

-----------------------------------------------------------------------------
(* openpyxl.utils.get_column_letter and the coordinate parse of sheet["A1"] *)

Letters == <<"A", "B", "C", "D", "E", "F", "G", "H", "I", "J", "K", "L", "M",
             "N", "O", "P", "Q", "R", "S", "T", "U", "V", "W", "X", "Y", "Z">>

MaxColumnIndex == 18278

RECURSIVE ColumnLetters(_)
ColumnLetters(idx) ==
    IF idx <= 0 THEN <<>>
    ELSE LET r == idx % 26
             rem == IF r = 0 THEN 26 ELSE r
             q == IF r = 0 THEN (idx \div 26) - 1 ELSE idx \div 26
         IN Append(ColumnLetters(q), Letters[rem])

\* ok = FALSE stands for the ValueError of an index outside 1..18278
get_column_letter(idx) ==
    IF idx >= 1 /\ idx <= MaxColumnIndex
    THEN [ok |-> TRUE, letters |-> ColumnLetters(idx)]
    ELSE [ok |-> FALSE, letters |-> <<>>]

LetterValue(c) == CHOOSE d \in 1..26 : Letters[d] = c

RECURSIVE ColumnIndexAcc(_, _)
ColumnIndexAcc(s, acc) ==
    IF s = <<>> THEN acc ELSE ColumnIndexAcc(Tail(s), 26 * acc + LetterValue(Head(s)))

\* column_index_from_string, as used by sheet[f"{col_letter}{row}"]
column_index_from_string(s) == ColumnIndexAcc(s, 0)

-----------------------------------------------------------------------------
(* Documents.  A document is a sequence of sheets (tables); a sheet has a  *)
(* name and a sequence of rows; a row is a sequence of cells.              *)
(*   Excel cell: value (str / int / None) and fill.                        *)
(*   ODS cell:   the formula and numbercolumnsrepeated attributes (None    *)
(*               when absent), the text of its paragraphs, its stylename.  *)

MaxCells == 2

MaxMacros == 1

NoneValue == [t |-> "none", s |-> <<>>]

IntValue == [t |-> "int", s |-> <<>>]

StrValue(s) == [t |-> "str", s |-> s]

ExcelCell(v) == [value |-> v, fill |-> None]

ExcelCells ==
    { ExcelCell(NoneValue), ExcelCell(IntValue),
      ExcelCell(StrValue(<<"H", "i">>)),
      ExcelCell(StrValue(<<"=", "S", "U", "M">>)) }

OdsCell(f, r) == [formula |-> f, repeat |-> r, text |-> <<>>, stylename |-> None]

OdsFormula == <<"o", "f", ":", "=", "S", "U", "M">>

OdsCells ==
    { OdsCell(NoText, NoText),
      OdsCell(OdsFormula, NoText),
      OdsCell(NoText, <<"3">>),
      OdsCell(NoText, <<"1", "0", "1">>),
      OdsCell(NoText, <<"1", "8", "2", "7", "8">>),
      OdsCell(OdsFormula, <<"1", "0", "1">>) }

\* titles of the worksheets of a workbook (distinct in a workbook)
SheetTitles == <<"Sheet1", "Data", "Sheet3", "Sheet4">>

\* table:name of an ODS table; None when the attribute is absent
OdsNames == {None, "Data"}

\* The layout of a document with n cells: gap[i] says whether cell i+1
\* continues the row of cell i, starts a new row or starts a new sheet.
Gaps == {"cell", "row", "sheet"}

RECURSIVE BuildSheets(_, _, _)
BuildSheets(cells, gaps, sheets) ==
    IF cells = <<>> THEN sheets
    ELSE
      LET c == Head(cells)
          n == Len(sheets)
          last == sheets[n]
          m == Len(last)
          next ==
            IF n = 0 \/ Head(gaps) = "sheet" THEN Append(sheets, << <<c>> >>)
            ELSE IF Head(gaps) = "row"
              THEN [sheets EXCEPT ![n] = Append(last, <<c>>)]
              ELSE [sheets EXCEPT ![n] = [last EXCEPT ![m] = Append(last[m], c)]]
      IN BuildSheets(Tail(cells), Tail(gaps), next)

Layouts(kinds) ==
    { BuildSheets(cells, <<"sheet">> \o gaps, <<>>) :
        <<cells, gaps>> \in UNION { [1..n -> kinds] \X [1..(n - 1) -> Gaps] : n \in 1..MaxCells } }

ExcelDocuments ==
    { [sheets |-> [i \in 1..Len(rows) |-> [name |-> SheetTitles[i], rows |-> rows[i]]]] :
        rows \in Layouts(ExcelCells) }

OdsDocuments ==
    UNION { { [sheets |-> [i \in 1..Len(rows) |-> [name |-> names[i], rows |-> rows[i]]]] :
                names \in [1..Len(rows) -> OdsNames] } :
            rows \in Layouts(OdsCells) }

\* The macro modules oletools reports: (vba_filename, vba_code)
Modules ==
    { [vba_filename |-> "Module1", vba_code |-> <<"S", "u", "b">>],
      [vba_filename |-> "Sheet1.cls", vba_code |-> <<>>] }

MacroStreams == UNION { [1..n -> Modules] : n \in 0..MaxMacros }

RECURSIVE Flatten(_)
Flatten(ss) == IF ss = <<>> THEN <<>> ELSE Head(ss) \o Flatten(Tail(ss))

-----------------------------------------------------------------------------
(* Fragment extraction *)

\* Python truthiness of a str-or-None attribute
Truthy(a) == a # NoText /\ a # <<>>

IsExcelFormula(v) == v.t = "str" /\ v.s # <<>> /\ StartsWith(v.s, "=")

\* One extracted formula: the tuple of the code plus origin, the position
\* (sheet, row, element) of the element it was read from.
FormulaCell(sheet_name, col, row, formula, origin) ==
    [location |-> <<sheet_name, "!", get_column_letter(col).letters, row>>,
     formula |-> formula, sheet_name |-> sheet_name, col |-> col, row |-> row,
     origin |-> origin]

detect_excel_formulas(wb) ==
    [ok |-> TRUE,
     cells |->
       Flatten([si \in 1..Len(wb.sheets) |->
         LET sheet == wb.sheets[si] IN
         Flatten([ri \in 1..Len(sheet.rows) |->
           Flatten([ci \in 1..Len(sheet.rows[ri]) |->
             LET cell == sheet.rows[ri][ci] IN
             IF IsExcelFormula(cell.value)
             THEN <<FormulaCell(sheet.name, ci, ri, cell.value.s, <<si, ri, ci>>)>>
             ELSE <<>>])])])]

RepeatSkipLimit == 100

\* table.getAttribute("name") or "Sheet"
TableName(table) ==
    IF table.name # None /\ table.name # "" THEN table.name ELSE "Sheet"

\* The cells of one row from element i on; col_num is the counter before
\* element i.  ok = FALSE when get_column_letter raises.
RECURSIVE OdsRowScan(_, _, _, _, _, _)
OdsRowScan(row, i, col_num, sheet_name, si, ri) ==
    IF i > Len(row) THEN [ok |-> TRUE, cells |-> <<>>]
    ELSE
      LET cell == row[i]
          col == col_num + 1
          rep == IF Truthy(cell.repeat) THEN ParseInt(cell.repeat)
                 ELSE [ok |-> FALSE, val |-> 0]
      IN
      IF rep.ok /\ rep.val > RepeatSkipLimit
      THEN OdsRowScan(row, i + 1, col + rep.val - 1, sheet_name, si, ri)
      ELSE IF Truthy(cell.formula)
      THEN IF get_column_letter(col).ok
           THEN LET rest == OdsRowScan(row, i + 1, col, sheet_name, si, ri) IN
                [ok |-> rest.ok,
                 cells |-> <<FormulaCell(sheet_name, col, ri, cell.formula, <<si, ri, i>>)>>
                           \o rest.cells]
           ELSE [ok |-> FALSE, cells |-> <<>>]
      ELSE OdsRowScan(row, i + 1, col, sheet_name, si, ri)

detect_ods_formulas(doc) ==
    LET scans ==
          Flatten([si \in 1..Len(doc.sheets) |->
            LET table == doc.sheets[si] IN
            [ri \in 1..Len(table.rows) |->
               OdsRowScan(table.rows[ri], 1, 0, TableName(table), si, ri)]])
    IN [ok |-> \A k \in 1..Len(scans) : scans[k].ok,
        cells |-> Flatten([k \in 1..Len(scans) |-> scans[k].cells])]

detect_formula_cells(file_type, document) ==
    IF file_type = "excel" THEN detect_excel_formulas(document)
    ELSE IF file_type = "ods" THEN detect_ods_formulas(document)
    ELSE [ok |-> TRUE, cells |-> <<>>]

\* detect_vba_macros: modules with empty code are dropped; nothing is found
\* without oletools
detect_vba_macros(has_oletools, modules) ==
    IF ~has_oletools THEN <<>>
    ELSE Flatten([k \in 1..Len(modules) |->
           IF modules[k].vba_code # <<>>
           THEN << [location |-> <<"VBA Module: ", modules[k].vba_filename>>,
                    code |-> modules[k].vba_code] >>
           ELSE <<>>])

-----------------------------------------------------------------------------
(* Classifier adapter: analyze_code_with_claude *)

DefaultScore == 5

Sentinel == <<"Unable to analyze">>

\* Clamp with the clamping line left out
ClampMissing(n) == n

\* max(1, min(10, score))
Clamp(n) == Max(1, Min(10, n))

\* One line of a reply text applied to the running (score, analysis)
ParseLine(res, line) ==
    IF StartsWith(line, "SCORE:")
    THEN LET p == ParseInt(Strip(Remove(line, "SCORE:"))) IN
         IF p.ok THEN [res EXCEPT !.score = Clamp(p.val)] ELSE res
    ELSE IF StartsWith(line, "ANALYSIS:")
    THEN [res EXCEPT !.analysis = Strip(Remove(line, "ANALYSIS:"))]
    ELSE res

RECURSIVE ParseLines(_, _)
ParseLines(res, lines) ==
    IF lines = <<>> THEN res ELSE ParseLines(ParseLine(res, Head(lines)), Tail(lines))

\* The body of the loop over the blocks for one TextBlock
ParseText(res, text) ==
    LET r == ParseLines(res, Split(Strip(text), NL)) IN
    IF r.analysis = Sentinel /\ Contains(text, "ANALYSIS:")
    THEN [r EXCEPT !.analysis = Strip(Split(text, "ANALYSIS:")[2])]
    ELSE r

RECURSIVE ParseBlocks(_, _)
ParseBlocks(res, blocks) ==
    IF blocks = <<>> THEN res
    ELSE ParseBlocks(IF Head(blocks).type = "TextBlock"
                     THEN ParseText(res, Head(blocks).text) ELSE res,
                     Tail(blocks))

\* The body of "async for message in query(...)" for one message
ParseMessage(res, message) ==
    IF message.type = "AssistantMessage" THEN ParseBlocks(res, message.content)
    ELSE res

\* The except branch: the score keeps its current value
OnException(res, e) ==
    [res EXCEPT !.analysis = <<"Error during analysis: ", e>>]

\* CallStart with the lowest score as the default
CallStartLowest == [score |-> 1, analysis |-> Sentinel]

CallStart == [score |-> DefaultScore, analysis |-> Sentinel]

(* What the oracle may send *)

MaxMessages == 2

TextBlock(t) == [type |-> "TextBlock", text |-> t]

ToolUseBlock == [type |-> "ToolUseBlock", text |-> <<>>]

AssistantMessage(content) == [type |-> "AssistantMessage", content |-> content]

ResultMessage == [type |-> "ResultMessage", content |-> <<>>]

TextHigh == <<"SCORE:", " ", "1", "2", NL, "ANALYSIS:", " ", "o", "k">>

TextLow == <<"SCORE:", " ", "-", "2">>

TextNotInt == <<"SCORE:", " ", "x", NL, "ANALYSIS:", " ", "o", "k">>

TextNoScore == <<"o", "k">>

TextTwoScores == <<"SCORE:", " ", "-", "2", NL, "SCORE:", " ", "1", "2">>

Messages ==
    { ResultMessage,
      AssistantMessage(<<ToolUseBlock>>),
      AssistantMessage(<<TextBlock(TextHigh)>>),
      AssistantMessage(<<TextBlock(TextLow)>>),
      AssistantMessage(<<TextBlock(TextNotInt)>>),
      AssistantMessage(<<TextBlock(TextNoScore)>>),
      AssistantMessage(<<TextBlock(TextTwoScores)>>),
      AssistantMessage(<<TextBlock(TextHigh), TextBlock(TextLow)>>) }

Exceptions == {"timeout"}

-----------------------------------------------------------------------------
(* Findings and the report *)

\* cell_reference None
NoCell == <<>>

MacroFinding(item_number, location, code, score, analysis, cell_reference, origin) ==
    [item_number |-> item_number, location |-> location, code |-> code,
     score |-> score, analysis |-> analysis, cell_reference |-> cell_reference,
     origin |-> origin]

\* sorted(findings, key=score): a stable insertion sort
RECURSIVE InsertByScore(_, _)
InsertByScore(sorted, f) ==
    IF sorted = <<>> THEN <<f>>
    ELSE IF Head(sorted).score <= f.score
         THEN <<Head(sorted)>> \o InsertByScore(Tail(sorted), f)
         ELSE <<f>> \o sorted

RECURSIVE SortedByScore(_)
SortedByScore(fs) ==
    IF fs = <<>> THEN <<>>
    ELSE InsertByScore(SortedByScore(SubSeq(fs, 1, Len(fs) - 1)), fs[Len(fs)])

CountWhere(fs, P(_)) == Cardinality({i \in 1..Len(fs) : P(fs[i])})

\* How many distinct seconds the clock shows during a run
MaxClock == 2

\* datetime.now().strftime("%Y-%m-%d %H:%M:%S")
Clock == 1..MaxClock

\* generate_markdown_report counting score 10 among the risky as well
generate_markdown_report_wide_band(name, fs, threshold, now) ==
    [file |-> name,
     scan_date |-> now,
     total |-> Len(fs),
     threshold |-> threshold,
     malicious |-> CountWhere(fs, LAMBDA f : f.score <= 3),
     suspicious |-> CountWhere(fs, LAMBDA f : 4 <= f.score /\ f.score <= 6),
     risky |-> CountWhere(fs, LAMBDA f : 7 <= f.score /\ f.score <= 10),
     safe |-> CountWhere(fs, LAMBDA f : f.score = 10),
     to_remove |-> CountWhere(fs, LAMBDA f : f.score < threshold),
     entries |-> [i \in 1..Len(fs) |->
                    LET f == SortedByScore(fs)[i] IN
                    [item_number |-> f.item_number, location |-> f.location,
                     score |-> f.score, analysis |-> f.analysis, code |-> f.code]]]

generate_markdown_report(name, fs, threshold, now) ==
    [file |-> name,
     scan_date |-> now,
     total |-> Len(fs),
     threshold |-> threshold,
     malicious |-> CountWhere(fs, LAMBDA f : f.score <= 3),
     suspicious |-> CountWhere(fs, LAMBDA f : 4 <= f.score /\ f.score <= 6),
     risky |-> CountWhere(fs, LAMBDA f : 7 <= f.score /\ f.score <= 9),
     safe |-> CountWhere(fs, LAMBDA f : f.score = 10),
     to_remove |-> CountWhere(fs, LAMBDA f : f.score < threshold),
     entries |-> [i \in 1..Len(fs) |->
                    LET f == SortedByScore(fs)[i] IN
                    [item_number |-> f.item_number, location |-> f.location,
                     score |-> f.score, analysis |-> f.analysis, code |-> f.code]]]

-----------------------------------------------------------------------------
(* Sanitizer *)

Placeholder(item_number) == <<"CODE REMOVED: Item #", item_number>>

\* finding.score < self.remove_threshold and finding.cell_reference
ShouldRemove(f, threshold) == f.score < threshold /\ f.cell_reference # NoCell

RedactExcelCell(cell, item_number) ==
    [cell EXCEPT !.value = StrValue(Placeholder(item_number)), !.fill = "FFFF00"]

\* sheet[f"{col_letter}{row}"] of the sheet titled sheet_name, assigned;
\* openpyxl creates the cell when the sheet has none there.
RECURSIVE PadTo(_, _, _)
PadTo(seq, n, filler) == IF Len(seq) >= n THEN seq ELSE PadTo(Append(seq, filler), n, filler)

RedactExcel(wb, f) ==
    LET si == CHOOSE i \in 1..Len(wb.sheets) : wb.sheets[i].name = f.cell_reference[1]
        ci == column_index_from_string(f.cell_reference[2])
        ri == f.cell_reference[3]
        rows == PadTo(wb.sheets[si].rows, ri, <<>>)
        row == PadTo(rows[ri], ci, ExcelCell(NoneValue))
    IN [wb EXCEPT !.sheets[si].rows =
          [rows EXCEPT ![ri] = [row EXCEPT ![ci] = RedactExcelCell(row[ci], f.item_number)]]]

\* The loop of _create_sanitized_excel over self.findings
RECURSIVE SanitizeExcel(_, _, _, _)
SanitizeExcel(wb, fs, threshold, items_removed) ==
    IF fs = <<>> THEN [doc |-> wb, items_removed |-> items_removed, missing_attr |-> FALSE]
    ELSE IF ShouldRemove(Head(fs), threshold)
         THEN SanitizeExcel(RedactExcel(wb, Head(fs)), Tail(fs), threshold, items_removed + 1)
         ELSE SanitizeExcel(wb, Tail(fs), threshold, items_removed)

\* cells_to_sanitize[(sheet_name, row)] restricted to one column letter:
\* the item numbers, in the order of the findings
ItemsFor(fs, threshold, sheet_name, row, col_letter) ==
    LET hit(f) == /\ ShouldRemove(f, threshold)
                  /\ f.cell_reference[1] = sheet_name
                  /\ f.cell_reference[3] = row
                  /\ f.cell_reference[2] = col_letter
    IN [k \in 1..Len(SelectSeq(fs, hit)) |-> SelectSeq(fs, hit)[k].item_number]

RedactOdsCell(cell, items) ==
    IF items = <<>> THEN cell
    ELSE [cell EXCEPT !.formula = NoText,
                      !.text = <<Placeholder(items[Len(items)])>>,
                      !.stylename = "YellowBackground"]

\* The walk of _create_sanitized_ods: col_num counts the elements of a row.
\* missing_attr: removeAttribute("formula") was called on a cell that had
\* no formula attribute (any more).
SanitizeOds(doc, fs, threshold) ==
    LET items(si, ri, ci) ==
          ItemsFor(fs, threshold, TableName(doc.sheets[si]), ri, get_column_letter(ci).letters)
        Cells == Flatten([si \in 1..Len(doc.sheets) |->
                   Flatten([ri \in 1..Len(doc.sheets[si].rows) |->
                     [ci \in 1..Len(doc.sheets[si].rows[ri]) |-> <<si, ri, ci>>]])])
        Count[k \in 0..Len(Cells)] ==
          IF k = 0 THEN 0
          ELSE Len(items(Cells[k][1], Cells[k][2], Cells[k][3])) + Count[k - 1]
    IN [doc |->
          [sheets |-> [si \in 1..Len(doc.sheets) |->
             [doc.sheets[si] EXCEPT !.rows =
                [ri \in 1..Len(doc.sheets[si].rows) |->
                   [ci \in 1..Len(doc.sheets[si].rows[ri]) |->
                      RedactOdsCell(doc.sheets[si].rows[ri][ci], items(si, ri, ci))]]]]],
        items_removed |-> Count[Len(Cells)],
        missing_attr |->
          \E k \in 1..Len(Cells) :
             LET c == Cells[k]
                 n == Len(items(c[1], c[2], c[3]))
             IN n >= 2 \/ (n = 1 /\ ~Truthy(doc.sheets[c[1]].rows[c[2]][c[3]].formula))]

-----------------------------------------------------------------------------
(* Files *)

AbsentFile == [kind |-> "absent"]

JunkFile == [kind |-> "junk"]

PartialFile == [kind |-> "partial"]

SpreadsheetFile(format, doc, modules) ==
    [kind |-> "spreadsheet", format |-> format, document |-> doc, modules |-> modules]

ReportFile(report) == [kind |-> "report", report |-> report]

Path(stem, suffix) == [stem |-> stem, suffix |-> suffix]

Timestamp == "20260101_120000"

\* output_dir / f"{input_path.stem}_report_{timestamp}.md"
report_path(input_path) == Path(input_path.stem \o <<"_report_", Timestamp>>, ".md")

\* output_dir / f"{input_path.stem}_sanitized_{timestamp}{input_path.suffix}"
sanitized_path(input_path) ==
    Path(input_path.stem \o <<"_sanitized_", Timestamp>>, input_path.suffix)

InputPaths == { Path(<<"book">>, x) : x \in {".xlsx", ".xlsm", ".ods", ".txt"} }

Paths(input_path) == {input_path, report_path(input_path), sanitized_path(input_path)}

ExcelSuffixes == {".xlsx", ".xlsm"}

\* MacroChecker.__init__(input_file, remove_threshold=5)
DefaultThreshold == 5

\* --remove-threshold
Thresholds == {DefaultThreshold, 6}

-----------------------------------------------------------------------------
(* State *)

VARIABLES
    pc,                \* where the run is
    mode,              \* "cli": cli.main; "api": scan_file called on a new MacroChecker
    input_file,        \* self.input_file
    disk,              \* path -> file
    has_odfpy,         \* HAS_ODFPY
    has_oletools,      \* HAS_OLETOOLS
    remove_threshold,  \* self.remove_threshold
    file_type,         \* self.file_type
    workbook,          \* self.workbook
    ods_doc,           \* self.ods_doc
    findings,          \* self.findings
    item_counter,      \* self.item_counter
    vba_macros,        \* scan_file's vba_macros
    formula_cells,     \* scan_file's formula_cells
    pos,               \* how many elements of the current list the loop has taken
    call,              \* score, analysis of the analyze call in flight, and messages received
    requests,          \* the queries issued so far, in order (history)
    scan_result,       \* what scan_file returned
    sanitize_result,   \* what create_sanitized_copy returned
    exit_status,       \* process exit status, -1 while running
    reports,           \* what the calls of generate_markdown_report made on the
                       \* checker directly returned, in order
    copies,            \* what the calls of create_sanitized_copy made on the
                       \* checker directly returned, printed and left on disk
    reply              \* the message stream a call of analyze_code_with_claude
                       \* made on its own was given

vars == <<pc, mode, input_file, disk, has_odfpy, has_oletools, remove_threshold,
          file_type, workbook, ods_doc, findings, item_counter, vba_macros,
          formula_cells, pos, call, requests, scan_result, sanitize_result,
          exit_status, reports, copies, reply>>

\* What only the checker's methods called on their own record
hist == <<reports, copies, reply>>

NoDocument == [none |-> TRUE]

Idle == [score |-> DefaultScore, analysis |-> Sentinel, n |-> 0]

\* The files an input path may name
InputFiles(path) ==
    {AbsentFile, JunkFile}
    \cup (IF path.suffix = ".xlsx"
          THEN { SpreadsheetFile("excel", d, <<>>) : d \in ExcelDocuments } ELSE {})
    \cup (IF path.suffix = ".xlsm"
          THEN { SpreadsheetFile("excel", d, m) : d \in ExcelDocuments, m \in MacroStreams \ {<<>>} }
          ELSE {})
    \cup (IF path.suffix = ".ods"
          THEN { SpreadsheetFile("ods", d, <<>>) : d \in OdsDocuments } ELSE {})

Init ==
    /\ input_file \in InputPaths
    /\ \E f \in InputFiles(input_file) :
         disk = [p \in Paths(input_file) |-> IF p = input_file THEN f ELSE AbsentFile]
    /\ mode \in {"cli", "api"}
    /\ pc = IF mode = "cli" THEN "main" ELSE "scan_file"
    /\ has_odfpy \in (IF input_file.suffix = ".ods" THEN BOOLEAN ELSE {TRUE})
    /\ has_oletools \in (IF input_file.suffix = ".xlsm" THEN BOOLEAN ELSE {TRUE})
    /\ remove_threshold \in (IF mode = "cli" THEN Thresholds ELSE {DefaultThreshold})
    /\ file_type = None
    /\ workbook = NoDocument
    /\ ods_doc = NoDocument
    /\ findings = <<>>
    /\ item_counter = 0
    /\ vba_macros = <<>>
    /\ formula_cells = <<>>
    /\ pos = 0
    /\ call = Idle
    /\ requests = <<>>
    /\ scan_result = None
    /\ sanitize_result = None
    /\ exit_status = -1
    /\ reports = <<>>
    /\ copies = <<>>
    /\ reply = <<>>

-----------------------------------------------------------------------------
(* load_spreadsheet.  self.file_type is assigned before the library load, *)
(* so it keeps its value when the load raises.                            *)

\* load_spreadsheet returning True although the library load raised
load_spreadsheet_unchecked(path, file, odfpy) ==
    [ok |-> path.suffix \in ExcelSuffixes \cup {".ods"},
     file_type |-> IF path.suffix = ".ods" THEN "ods" ELSE "excel",
     workbook |-> IF file.kind = "spreadsheet" /\ file.format = "excel"
                  THEN file.document ELSE NoDocument,
     ods_doc |-> IF file.kind = "spreadsheet" /\ file.format = "ods"
                 THEN file.document ELSE NoDocument]

load_spreadsheet(path, file, odfpy) ==
    IF path.suffix \in ExcelSuffixes
    THEN IF file.kind = "spreadsheet" /\ file.format = "excel"
         THEN [ok |-> TRUE, file_type |-> "excel", workbook |-> file.document,
               ods_doc |-> NoDocument]
         ELSE [ok |-> FALSE, file_type |-> "excel", workbook |-> NoDocument,
               ods_doc |-> NoDocument]
    ELSE IF path.suffix = ".ods"
    THEN IF ~odfpy
         THEN [ok |-> FALSE, file_type |-> None, workbook |-> NoDocument,
               ods_doc |-> NoDocument]
         ELSE IF file.kind = "spreadsheet" /\ file.format = "ods"
         THEN [ok |-> TRUE, file_type |-> "ods", workbook |-> NoDocument,
               ods_doc |-> file.document]
         ELSE [ok |-> FALSE, file_type |-> "ods", workbook |-> NoDocument,
               ods_doc |-> NoDocument]
    ELSE [ok |-> FALSE, file_type |-> None, workbook |-> NoDocument,
          ods_doc |-> NoDocument]

\* The document self.workbook / self.ods_doc that file_type selects
Document == IF file_type = "excel" THEN workbook ELSE ods_doc

-----------------------------------------------------------------------------
(* Actions *)

\* cli.main up to the call of scan_file: the input checks
ValidateInput ==
    /\ pc = "main"
    /\ IF disk[input_file].kind = "absent"
          \/ input_file.suffix \notin {".xlsx", ".xlsm", ".ods"}
       THEN pc' = "exited" /\ exit_status' = 1
       ELSE pc' = "scan_file" /\ exit_status' = exit_status
    /\ UNCHANGED hist
    /\ UNCHANGED <<mode, input_file, disk, has_odfpy, has_oletools, remove_threshold,
                   file_type, workbook, ods_doc, findings, item_counter, vba_macros,
                   formula_cells, pos, call, requests, scan_result, sanitize_result>>

\* scan_file: load_spreadsheet; on failure scan_file returns False and
\* cli.main exits with status 1
LoadSpreadsheet ==
    /\ pc = "scan_file"
    /\ LET r == load_spreadsheet(input_file, disk[input_file], has_odfpy) IN
       /\ file_type' = r.file_type
       /\ workbook' = r.workbook
       /\ ods_doc' = r.ods_doc
       /\ IF r.ok
          THEN pc' = "loaded" /\ scan_result' = scan_result /\ exit_status' = exit_status
          ELSE /\ scan_result' = "False"
               /\ IF mode = "cli"
                  THEN pc' = "exited" /\ exit_status' = 1
                  ELSE pc' = "returned" /\ exit_status' = exit_status
    /\ UNCHANGED hist
    /\ UNCHANGED <<mode, input_file, disk, has_odfpy, has_oletools, remove_threshold,
                   findings, item_counter, vba_macros, formula_cells, pos, call,
                   requests, sanitize_result>>

\* scan_file: vba_macros = self.detect_vba_macros()
DetectVbaMacros ==
    /\ pc = "loaded"
    /\ vba_macros' = detect_vba_macros(has_oletools, disk[input_file].modules)
    /\ pos' = 0
    /\ pc' = "vba_loop"
    /\ UNCHANGED hist
    /\ UNCHANGED <<mode, input_file, disk, has_odfpy, has_oletools, remove_threshold,
                   file_type, workbook, ods_doc, findings, item_counter,
                   formula_cells, call, requests, scan_result, sanitize_result,
                   exit_status>>

Request(code, location) == [code |-> code, location |-> location]

\* The loop over vba_macros up to the await: the query is issued
AnalyzeVbaMacro ==
    /\ pc = "vba_loop"
    /\ pos < Len(vba_macros)
    /\ pos' = pos + 1
    /\ item_counter' = item_counter + 1
    /\ requests' = Append(requests, Request(vba_macros[pos + 1].code, vba_macros[pos + 1].location))
    /\ call' = Idle
    /\ pc' = "await_vba"
    /\ UNCHANGED hist
    /\ UNCHANGED <<mode, input_file, disk, has_odfpy, has_oletools, remove_threshold,
                   file_type, workbook, ods_doc, findings, vba_macros, formula_cells,
                   scan_result, sanitize_result, exit_status>>

\* scan_file: formula_cells = self.detect_formula_cells(); a ValueError of
\* get_column_letter is not caught and ends the run
DetectFormulaCells ==
    /\ pc = "vba_loop"
    /\ pos = Len(vba_macros)
    /\ LET r == detect_formula_cells(file_type, Document) IN
       IF r.ok
       THEN /\ formula_cells' = r.cells
            /\ pos' = 0
            /\ pc' = "formula_loop"
            /\ exit_status' = exit_status
       ELSE /\ pc' = "crashed"
            /\ exit_status' = IF mode = "cli" THEN 1 ELSE exit_status
            /\ UNCHANGED <<formula_cells, pos>>
    /\ UNCHANGED hist
    /\ UNCHANGED <<mode, input_file, disk, has_odfpy, has_oletools, remove_threshold,
                   file_type, workbook, ods_doc, findings, item_counter, vba_macros,
                   call, requests, scan_result, sanitize_result>>

\* The loop over formula_cells up to the await: the query is issued
AnalyzeFormula ==
    /\ pc = "formula_loop"
    /\ pos < Len(formula_cells)
    /\ pos' = pos + 1
    /\ item_counter' = item_counter + 1
    /\ requests' = Append(requests, Request(formula_cells[pos + 1].formula,
                                            formula_cells[pos + 1].location))
    /\ call' = Idle
    /\ pc' = "await_formula"
    /\ UNCHANGED hist
    /\ UNCHANGED <<mode, input_file, disk, has_odfpy, has_oletools, remove_threshold,
                   file_type, workbook, ods_doc, findings, vba_macros, formula_cells,
                   scan_result, sanitize_result, exit_status>>

\* analyze_code_with_claude: the oracle yields one more message
OracleMessage ==
    /\ pc \in {"await_vba", "await_formula"}
    /\ call.n < MaxMessages
    /\ \E m \in Messages :
         LET r == ParseMessage([score |-> call.score, analysis |-> call.analysis], m) IN
         call' = [score |-> r.score, analysis |-> r.analysis, n |-> call.n + 1]
    /\ UNCHANGED hist
    /\ UNCHANGED <<pc, mode, input_file, disk, has_odfpy, has_oletools, remove_threshold,
                   file_type, workbook, ods_doc, findings, item_counter, vba_macros,
                   formula_cells, pos, requests, scan_result, sanitize_result,
                   exit_status>>

\* NewFinding numbering each list from 1 (the loop index in place of
\* self.item_counter)
NewFindingByPos(res) ==
    IF pc = "await_vba"
    THEN MacroFinding(pos, vba_macros[pos].location, vba_macros[pos].code,
                      res.score, res.analysis, NoCell, <<>>)
    ELSE LET c == formula_cells[pos] IN
         MacroFinding(pos, c.location, c.formula, res.score, res.analysis,
                      <<c.sheet_name, get_column_letter(c.col).letters, c.row>>, c.origin)

\* The finding scan_file builds from what analyze_code_with_claude returned
NewFinding(res) ==
    IF pc = "await_vba"
    THEN MacroFinding(item_counter, vba_macros[pos].location, vba_macros[pos].code,
                      res.score, res.analysis, NoCell, <<>>)
    ELSE LET c == formula_cells[pos] IN
         MacroFinding(item_counter, c.location, c.formula, res.score, res.analysis,
                      <<c.sheet_name, get_column_letter(c.col).letters, c.row>>, c.origin)

Returned(res) ==
    /\ findings' = Append(findings, NewFinding(res))
    /\ call' = Idle
    /\ pc' = IF pc = "await_vba" THEN "vba_loop" ELSE "formula_loop"
    /\ UNCHANGED hist
    /\ UNCHANGED <<mode, input_file, disk, has_odfpy, has_oletools, remove_threshold,
                   file_type, workbook, ods_doc, item_counter, vba_macros,
                   formula_cells, pos, requests, scan_result, sanitize_result,
                   exit_status>>

\* The reply stream ends: analyze_code_with_claude returns (score, analysis)
OracleEnds ==
    /\ pc \in {"await_vba", "await_formula"}
    /\ Returned([score |-> call.score, analysis |-> call.analysis])

\* OracleRaises with one retry of the query before falling back
OracleRaisesWithRetry ==
    /\ pc \in {"await_vba", "await_formula"}
    /\ IF Len(requests) = Len(findings) + 1
       THEN /\ requests' = Append(requests, requests[Len(requests)])
            /\ call' = Idle
            /\ UNCHANGED <<pc, mode, input_file, disk, has_odfpy, has_oletools,
                           remove_threshold, file_type, workbook, ods_doc, findings,
                           item_counter, vba_macros, formula_cells, pos, scan_result,
                           sanitize_result, exit_status, reports, copies, reply>>
       ELSE \E e \in Exceptions :
              Returned(OnException([score |-> call.score, analysis |-> call.analysis], e))

\* query raises: the except branch, then the return
OracleRaises ==
    /\ pc \in {"await_vba", "await_formula"}
    /\ \E e \in Exceptions :
         Returned(OnException([score |-> call.score, analysis |-> call.analysis], e))

\* ScanComplete with the return inside the loop over formula_cells
ScanCompleteEarly ==
    /\ pc = "formula_loop"
    /\ pos <= Len(formula_cells)
    /\ scan_result' = "True"
    /\ pc' = IF mode = "cli" THEN "scanned" ELSE "returned"
    /\ UNCHANGED hist
    /\ UNCHANGED <<mode, input_file, disk, has_odfpy, has_oletools, remove_threshold,
                   file_type, workbook, ods_doc, findings, item_counter, vba_macros,
                   formula_cells, pos, call, requests, sanitize_result, exit_status>>

\* scan_file returns True
ScanComplete ==
    /\ pc = "formula_loop"
    /\ pos = Len(formula_cells)
    /\ scan_result' = "True"
    /\ pc' = IF mode = "cli" THEN "scanned" ELSE "returned"
    /\ UNCHANGED hist
    /\ UNCHANGED <<mode, input_file, disk, has_odfpy, has_oletools, remove_threshold,
                   file_type, workbook, ods_doc, findings, item_counter, vba_macros,
                   formula_cells, pos, call, requests, sanitize_result, exit_status>>

\* What the file system may do to a read and to a write
IOOutcomes == {"ok", "read_fails", "write_fails_clean", "write_fails_partial"}

\* cli.main: report_file.write_text(checker.generate_markdown_report());
\* an OSError of write_text is not caught
WriteReport ==
    /\ pc = "scanned"
    /\ \E io \in {"ok", "write_fails_clean"}, now \in Clock :
         IF io = "ok"
         THEN /\ disk' = [disk EXCEPT ![report_path(input_file)] =
                  ReportFile(generate_markdown_report(input_file, findings,
                                                      remove_threshold, now))]
              /\ pc' = "reported"
              /\ exit_status' = exit_status
         ELSE /\ disk' = disk
              /\ pc' = "crashed"
              /\ exit_status' = 1
    /\ UNCHANGED hist
    /\ UNCHANGED <<mode, input_file, has_odfpy, has_oletools, remove_threshold,
                   file_type, workbook, ods_doc, findings, item_counter, vba_macros,
                   formula_cells, pos, call, requests, scan_result, sanitize_result>>

\* _create_sanitized_excel redacting self.workbook itself (output_wb =
\* self.workbook) in place of a fresh load
create_sanitized_excel_in_place(st, output_file, io) ==
    LET san == SanitizeExcel(st.workbook, st.findings, st.remove_threshold, 0) IN
    IF io = "ok"
    THEN [st EXCEPT !.workbook = san.doc,
                    !.disk[output_file] = SpreadsheetFile("excel", san.doc, <<>>),
                    !.items_removed = san.items_removed,
                    !.result = "True"]
    ELSE [st EXCEPT !.workbook = san.doc, !.result = "False"]

\* _create_sanitized_excel: the copy is a fresh load of the input file,
\* saved under output_file; openpyxl saves without the macro stream.
create_sanitized_excel(st, output_file, io) ==
    IF io = "read_fails" \/ st.disk[st.input_file].kind # "spreadsheet"
    THEN [st EXCEPT !.result = "False"]
    ELSE LET san == SanitizeExcel(st.disk[st.input_file].document, st.findings,
                                  st.remove_threshold, 0)
         IN IF io = "ok"
            THEN [st EXCEPT !.disk[output_file] = SpreadsheetFile("excel", san.doc, <<>>),
                            !.items_removed = san.items_removed,
                            !.result = "True"]
            ELSE IF io = "write_fails_partial"
            THEN [st EXCEPT !.disk[output_file] = PartialFile, !.result = "False"]
            ELSE [st EXCEPT !.result = "False"]

\* _create_sanitized_ods: shutil.copy2 to output_file, the copy loaded,
\* redacted and saved over itself.  strict: removeAttribute raises for an
\* attribute the element does not have.
create_sanitized_ods(st, output_file, io, strict) ==
    IF io = "read_fails"
    THEN [st EXCEPT !.result = "False"]
    ELSE LET copy == st.disk[st.input_file]
             copied == [st EXCEPT !.disk[output_file] = copy]
             san == SanitizeOds(copy.document, st.findings, st.remove_threshold)
         IN IF san.missing_attr /\ strict
            THEN [copied EXCEPT !.result = "False"]
            ELSE IF io = "ok"
            THEN [copied EXCEPT !.disk[output_file] =
                                   SpreadsheetFile("ods", san.doc, copy.modules),
                                !.items_removed = san.items_removed,
                                !.result = "True"]
            ELSE IF io = "write_fails_partial"
            THEN [copied EXCEPT !.disk[output_file] = PartialFile, !.result = "False"]
            ELSE [copied EXCEPT !.result = "False"]

\* create_sanitized_copy that drops from self.findings what it has handled
create_sanitized_copy_consuming(st, output_file, io, strict) ==
    LET r == IF st.file_type = "excel" THEN create_sanitized_excel(st, output_file, io)
             ELSE IF st.file_type = "ods" THEN create_sanitized_ods(st, output_file, io, strict)
             ELSE [st EXCEPT !.result = "False"]
    IN IF r.result = "True" THEN [r EXCEPT !.findings = <<>>] ELSE r

\* create_sanitized_copy on the checker state st = (input_file, disk,
\* file_type, workbook, ods_doc, findings, remove_threshold); what it
\* returns is st.result, and st.items_removed is the count it prints as
\* "Items removed/highlighted" before it returns True
create_sanitized_copy(st, output_file, io, strict) ==
    IF st.file_type = "excel" THEN create_sanitized_excel(st, output_file, io)
    ELSE IF st.file_type = "ods" THEN create_sanitized_ods(st, output_file, io, strict)
    ELSE [st EXCEPT !.result = "False"]

CheckerState ==
    [input_file |-> input_file, disk |-> disk, file_type |-> file_type,
     workbook |-> workbook, ods_doc |-> ods_doc, findings |-> findings,
     remove_threshold |-> remove_threshold, result |-> None, items_removed |-> None]

\* Sanitize removing what the run has written when the copy fails
SanitizeCleaningUp ==
    /\ pc = "reported"
    /\ \E io \in IOOutcomes, strict \in BOOLEAN :
         LET st == create_sanitized_copy(CheckerState, sanitized_path(input_file), io, strict) IN
         /\ disk' = IF st.result = "True" THEN st.disk
                    ELSE [p \in DOMAIN disk |-> IF p = input_file THEN disk[p] ELSE AbsentFile]
         /\ workbook' = st.workbook
         /\ ods_doc' = st.ods_doc
         /\ findings' = st.findings
         /\ sanitize_result' = st.result
    /\ pc' = "exited"
    /\ exit_status' = 0
    /\ UNCHANGED hist
    /\ UNCHANGED <<mode, input_file, has_odfpy, has_oletools, remove_threshold,
                   file_type, item_counter, vba_macros, formula_cells, pos, call,
                   requests, scan_result>>

\* cli.main: checker.create_sanitized_copy(sanitized_file), then the end
Sanitize ==
    /\ pc = "reported"
    /\ \E io \in IOOutcomes, strict \in BOOLEAN :
         LET st == create_sanitized_copy(CheckerState, sanitized_path(input_file), io, strict) IN
         /\ disk' = st.disk
         /\ workbook' = st.workbook
         /\ ods_doc' = st.ods_doc
         /\ findings' = st.findings
         /\ sanitize_result' = st.result
    /\ pc' = "exited"
    /\ exit_status' = 0
    /\ UNCHANGED hist
    /\ UNCHANGED <<mode, input_file, has_odfpy, has_oletools, remove_threshold,
                   file_type, item_counter, vba_macros, formula_cells, pos, call,
                   requests, scan_result>>

Next ==
    \/ ValidateInput
    \/ LoadSpreadsheet
    \/ DetectVbaMacros
    \/ AnalyzeVbaMacro
    \/ DetectFormulaCells
    \/ AnalyzeFormula
    \/ OracleMessage
    \/ OracleEnds
    \/ OracleRaises
    \/ ScanComplete
    \/ WriteReport
    \/ Sanitize

Spec == Init /\ [][Next]_vars

\* The steps the process takes by itself: the interpreter runs each to its
\* end once it can be taken.  The steps of the oracle (a message, the end
\* of the stream, an exception) are the SDK's: query(prompt, options) is
\* awaited with no timeout, so nothing in the code makes one of them happen.
ProgramStep ==
    \/ ValidateInput
    \/ LoadSpreadsheet
    \/ DetectVbaMacros
    \/ AnalyzeVbaMacro
    \/ DetectFormulaCells
    \/ AnalyzeFormula
    \/ ScanComplete
    \/ WriteReport
    \/ Sanitize

\* The runs of cli.main on a macro-enabled workbook with the default threshold
LiveInit ==
    /\ Init
    /\ mode = "cli"
    /\ input_file.suffix = ".xlsm"
    /\ remove_threshold = DefaultThreshold

LiveSpec == LiveInit /\ [][Next]_vars /\ WF_vars(ProgramStep)

-----------------------------------------------------------------------------
(* generate_markdown_report called on a checker whose findings the caller *)
(* has assigned, as the tests do: checker.findings = [...]                *)

MaxFindings == 4

\* How many times the caller calls one method of the same checker
MaxCalls == 2

ReportScores == {3, 4, 6, 9, 10}

\* MacroFinding(n, "Loc<n>", "code<n>", score, "Analysis<n>")
GivenFinding(n, score) ==
    MacroFinding(n, <<"Loc", n>>, <<"code", n>>, score, <<"Analysis", n>>, NoCell, <<>>)

\* The lists of at most max findings a caller may assign: item numbers
\* 1..n in any order
FindingLists(max) ==
    UNION { { [i \in 1..n |-> GivenFinding(p[i], sc[i])] :
                p \in Permutations(1..n), sc \in [1..n -> ReportScores] } :
            n \in 0..max }

EmptyWorkbook == [sheets |-> <<>>]

\* checker = MacroChecker(path, remove_threshold) on a disk that holds file
\* at path; the caller drives the checker itself
Environment(path, file) ==
    /\ input_file = path
    /\ disk = [p \in Paths(path) |-> IF p = path THEN file ELSE AbsentFile]
    /\ mode = "api"
    /\ has_odfpy = TRUE
    /\ has_oletools = TRUE
    /\ remove_threshold \in Thresholds
    /\ sanitize_result = None
    /\ exit_status = -1
    /\ reports = <<>>
    /\ copies = <<>>

\* The fields scan_file sets, as __init__ leaves them
Unscanned ==
    /\ file_type = None
    /\ workbook = NoDocument
    /\ ods_doc = NoDocument
    /\ item_counter = 0
    /\ vba_macros = <<>>
    /\ formula_cells = <<>>
    /\ pos = 0
    /\ call = Idle
    /\ requests = <<>>
    /\ scan_result = None

ReportInit ==
    /\ Environment(Path(<<"book">>, ".xlsx"), SpreadsheetFile("excel", EmptyWorkbook, <<>>))
    /\ Unscanned
    /\ pc = "constructed"
    /\ findings \in FindingLists(MaxFindings)
    /\ reply = <<>>

\* report = checker.generate_markdown_report(); the clock does not go back
\* between two calls
GenerateReport ==
    /\ pc = "constructed"
    /\ Len(reports) < MaxCalls
    /\ \E now \in Clock :
         /\ reports # <<>> => now >= reports[Len(reports)].scan_date
         /\ reports' = Append(reports, generate_markdown_report(input_file, findings,
                                                                remove_threshold, now))
    /\ UNCHANGED <<pc, mode, input_file, disk, has_odfpy, has_oletools, remove_threshold,
                   file_type, workbook, ods_doc, findings, item_counter, vba_macros,
                   formula_cells, pos, call, requests, scan_result, sanitize_result,
                   exit_status, copies, reply>>

ReportNext == GenerateReport

ReportSpec == ReportInit /\ [][ReportNext]_vars

-----------------------------------------------------------------------------
(* create_sanitized_copy called on a checker whose scan_file has returned *)
(* True                                                                   *)

\* Scores a scan assigns: "SCORE: -2" clamps to 1; no reply leaves the
\* default 5
ScanScores == {1, DefaultScore}

\* self.findings after scan_file has classified macros and cells with the
\* scores given
ScannedFindings(macros, cells, scores) ==
    [i \in 1..(Len(macros) + Len(cells)) |->
       IF i <= Len(macros)
       THEN MacroFinding(i, macros[i].location, macros[i].code, scores[i], Sentinel,
                         NoCell, <<>>)
       ELSE LET c == cells[i - Len(macros)] IN
            MacroFinding(i, c.location, c.formula, scores[i], Sentinel,
                         <<c.sheet_name, get_column_letter(c.col).letters, c.row>>,
                         c.origin)]

\* The state scan_file leaves when it returns True
Scanned(path, file) ==
    LET loaded == load_spreadsheet(path, file, TRUE)
        macros == detect_vba_macros(TRUE, file.modules)
        found == detect_formula_cells(loaded.file_type,
                                      IF loaded.file_type = "excel" THEN loaded.workbook
                                      ELSE loaded.ods_doc)
    IN /\ loaded.ok
       /\ found.ok
       /\ file_type = loaded.file_type
       /\ workbook = loaded.workbook
       /\ ods_doc = loaded.ods_doc
       /\ vba_macros = macros
       /\ formula_cells = found.cells
       /\ pos = Len(found.cells)
       /\ call = Idle
       /\ item_counter = Len(macros) + Len(found.cells)
       /\ requests = [i \in 1..(Len(macros) + Len(found.cells)) |->
                        IF i <= Len(macros)
                        THEN Request(macros[i].code, macros[i].location)
                        ELSE Request(found.cells[i - Len(macros)].formula,
                                     found.cells[i - Len(macros)].location)]
       /\ \E scores \in [1..(Len(macros) + Len(found.cells)) -> ScanScores] :
            findings = ScannedFindings(macros, found.cells, scores)
       /\ scan_result = "True"

SanitizeInit ==
    /\ \E path \in InputPaths :
         \E file \in { f \in InputFiles(path) : f.kind = "spreadsheet" } :
            Environment(path, file) /\ Scanned(path, file)
    /\ pc = "returned"
    /\ reply = <<>>

\* ok = checker.create_sanitized_copy(output_file), output_file the same
\* path in every call
CreateSanitizedCopy ==
    /\ pc = "returned"
    /\ scan_result = "True"
    /\ Len(copies) < MaxCalls
    /\ \E io \in IOOutcomes, strict \in BOOLEAN :
         LET st == create_sanitized_copy(CheckerState, sanitized_path(input_file), io, strict) IN
         /\ disk' = st.disk
         /\ workbook' = st.workbook
         /\ ods_doc' = st.ods_doc
         /\ findings' = st.findings
         /\ sanitize_result' = st.result
         /\ copies' = Append(copies, [returned |-> st.result,
                                      items_removed |-> st.items_removed,
                                      file |-> st.disk[sanitized_path(input_file)]])
    /\ UNCHANGED <<pc, mode, input_file, has_odfpy, has_oletools, remove_threshold,
                   file_type, item_counter, vba_macros, formula_cells, pos, call,
                   requests, scan_result, exit_status, reports, reply>>

SanitizeNext == CreateSanitizedCopy

SanitizeSpec == SanitizeInit /\ [][SanitizeNext]_vars

-----------------------------------------------------------------------------
(* analyze_code_with_claude called on its own, query replaced by a stream *)
(* that ends without raising, as the tests do with mock_query             *)

MaxTextLen == 5

Symbols == {"SCORE:", "ANALYSIS:", NL, " ", "1", "2", "-", "x"}

\* Every reply text of at most max symbols
Texts(max) == UNION { [1..n -> Symbols] : n \in 0..max }

\* The streams query may yield: one message with one text block, or two of
\* the messages of the scan
Replies(max) ==
    { <<AssistantMessage(<<TextBlock(t)>>)>> : t \in Texts(max) }
    \cup { <<m1, m2>> : m1 \in Messages, m2 \in Messages }

ParseInit ==
    /\ Environment(Path(<<"book">>, ".xlsx"), SpreadsheetFile("excel", EmptyWorkbook, <<>>))
    /\ remove_threshold = DefaultThreshold
    /\ Unscanned
    /\ pc = "analyze"
    /\ findings = <<>>
    /\ \E r \in Replies(MaxTextLen) : reply = r

\* The loop "async for message in query(...)" over the whole stream
RECURSIVE ParseStream(_, _)
ParseStream(res, messages) ==
    IF messages = <<>> THEN res
    ELSE ParseStream(ParseMessage(res, Head(messages)), Tail(messages))

\* score, analysis = await checker.analyze_code_with_claude(code, location)
AnalyzeReply ==
    /\ pc = "analyze"
    /\ LET r == ParseStream(CallStart, reply) IN
       call' = [score |-> r.score, analysis |-> r.analysis, n |-> Len(reply)]
    /\ pc' = "analyzed"
    /\ UNCHANGED <<mode, input_file, disk, has_odfpy, has_oletools, remove_threshold,
                   file_type, workbook, ods_doc, findings, item_counter, vba_macros,
                   formula_cells, pos, requests, scan_result, sanitize_result,
                   exit_status, reports, copies, reply>>

ParseNext == AnalyzeReply

ParseSpec == ParseInit /\ [][ParseNext]_vars

-----------------------------------------------------------------------------
(* Properties *)

Original == disk[input_file]

Output == disk[sanitized_path(input_file)]

Report == disk[report_path(input_file)]

CellAt(doc, o) == doc.sheets[o[1]].rows[o[2]][o[3]]

\* every (sheet, row, element) position of a document
Positions(doc) ==
    UNION { UNION { { <<si, ri, ci>> : ci \in 1..Len(doc.sheets[si].rows[ri]) } :
                    ri \in 1..Len(doc.sheets[si].rows) } :
            si \in 1..Len(doc.sheets) }

Indices(seq) == 1..Len(seq)

CellFindings == { i \in Indices(findings) : findings[i].cell_reference # NoCell }

\* The cell holds the placeholder of item n, no formula, and the yellow mark
RedactedAs(cell, n) ==
    IF file_type = "excel"
    THEN cell.value = StrValue(Placeholder(n)) /\ cell.fill = "FFFF00"
    ELSE /\ cell.text = <<Placeholder(n)>>
         /\ cell.formula = NoText
         /\ cell.stylename = "YellowBackground"

SanitizedOK == pc = "exited" /\ sanitize_result = "True"

\* C1: in the sanitized copy the cell of every finding with score >=
\* remove_threshold is the cell of the original, and when no finding has both
\* score < remove_threshold and a cell_reference (macro findings, whatever
\* their score) the copy has the cells of the original.
C1_OnlyBelowThresholdRedacted ==
    SanitizedOK =>
      /\ \A i \in CellFindings :
           findings[i].score >= remove_threshold =>
             CellAt(Output.document, findings[i].origin)
               = CellAt(Original.document, findings[i].origin)
      /\ (\A i \in Indices(findings) : ~ShouldRemove(findings[i], remove_threshold))
           => Output.document = Original.document

\* C2: after a successful create_sanitized_copy the cell of every finding
\* with score < remove_threshold and a cell_reference holds 'CODE REMOVED:
\* Item #<its item_number>', has no formula and carries the yellow mark.
C2_EveryBelowThresholdRedacted ==
    SanitizedOK =>
      \A i \in CellFindings :
         findings[i].score < remove_threshold =>
           RedactedAs(CellAt(Output.document, findings[i].origin), findings[i].item_number)

\* C3: the step of create_sanitized_copy leaves the input file and the
\* loaded workbook / ods_doc as they were, whatever it returns, and writes
\* to no path but the sanitized path, which is not the input path.
C3_OriginalUntouched ==
    [][pc = "reported" =>
         /\ workbook' = workbook
         /\ ods_doc' = ods_doc
         /\ sanitized_path(input_file) # input_file
         /\ \A p \in DOMAIN disk : p # sanitized_path(input_file) => disk'[p] = disk[p]]_vars

C3_Witness ==
    /\ SanitizedOK
    /\ Output.kind = "spreadsheet"
    /\ Output.document # Original.document
    /\ Original.document = Document

IsErrorRationale(analysis) == Len(analysis) = 2 /\ analysis[1] = "Error during analysis: "

\* C4: every finding has a score in 1..10.
C4_ScoreInRange ==
    \A i \in Indices(findings) : findings[i].score \in 1..10

\* a finding made after an out-of-range reply, one after a negative one and
\* one after an exception
C4_Witness ==
    /\ \E i \in Indices(findings) : findings[i].score = 10
    /\ \E i \in Indices(findings) : findings[i].score = 1
    /\ \E i \in Indices(findings) : IsErrorRationale(findings[i].analysis)

\* C5: a call in which the query raised returns the default score 5 and the
\* error rationale.
C5_ErrorGivesDefaultScore ==
    \A i \in Indices(findings) :
       IsErrorRationale(findings[i].analysis) => findings[i].score = DefaultScore

LoadFails ==
    \/ Original.kind # "spreadsheet"
    \/ input_file.suffix \notin {".xlsx", ".xlsm", ".ods"}
    \/ input_file.suffix = ".ods" /\ ~has_odfpy
    \/ /\ Original.kind = "spreadsheet"
       /\ Original.format # (IF input_file.suffix = ".ods" THEN "ods" ELSE "excel")

\* C6: when the input is missing, of an unsupported extension or does not
\* load, the run ends at the load: scan_file returns False, no finding is
\* added, no query is issued, no report and no sanitized copy is written,
\* and cli.main exits with status 1.
C6_LoadFailureTerminal ==
    LoadFails =>
      /\ pc \in {"main", "scan_file", "exited", "returned"}
      /\ findings = <<>>
      /\ requests = <<>>
      /\ Report = AbsentFile
      /\ Output = AbsentFile
      /\ pc = "exited" => exit_status = 1
      /\ pc = "returned" => scan_result = "False"

C6_Witness ==
    /\ LoadFails
    /\ Original.kind = "junk"
    /\ input_file.suffix = ".ods"
    /\ has_odfpy
    /\ pc = "exited"
    /\ scan_result = "False"

\* The formula cells of the loaded document: Excel, a str value that starts
\* with "="; ODS, a formula attribute
IsFormulaCell(cell) ==
    IF file_type = "excel"
    THEN cell.value.t = "str" /\ cell.value.s # <<>> /\ Head(cell.value.s) = "="
    ELSE cell.formula # NoText

FormulaPositions == { o \in Positions(Document) : IsFormulaCell(CellAt(Document, o)) }

\* detect_formula_cells has returned
FormulasExtracted ==
    \/ pc \in {"formula_loop", "await_formula", "scanned", "reported"}
    \/ pc \in {"exited", "returned"} /\ scan_result = "True"

\* C7: detect_formula_cells returns exactly one entry for each formula cell
\* of the document and none for any other cell, and a finished scan has one
\* finding per formula cell and per macro module found.
C7_ExtractionExact ==
    FormulasExtracted =>
      /\ \A o \in FormulaPositions :
           Cardinality({k \in Indices(formula_cells) : formula_cells[k].origin = o}) = 1
      /\ \A k \in Indices(formula_cells) : formula_cells[k].origin \in FormulaPositions
      /\ scan_result = "True" =>
           Len(findings) = Len(vba_macros) + Cardinality(FormulaPositions)

\* The cells of the loaded ODS document whose numbercolumnsrepeated is
\* above the skip limit
LongRuns ==
    { o \in Positions(Document) :
        LET cell == CellAt(Document, o) IN
        /\ Truthy(cell.repeat)
        /\ ParseInt(cell.repeat).ok
        /\ ParseInt(cell.repeat).val > RepeatSkipLimit }

\* C20: in ODS extraction a cell with a repeat count above 100 yields no
\* fragment when it carries no formula attribute and exactly one fragment
\* when it carries one.
C20_LongRunSkippedOnlyWithoutFormula ==
    FormulasExtracted /\ file_type = "ods" =>
       \A o \in LongRuns :
          Cardinality({ k \in Indices(formula_cells) : formula_cells[k].origin = o })
             = IF IsFormulaCell(CellAt(Document, o)) THEN 1 ELSE 0

\* How many columns a cell of an ODS row stands for: its
\* numbercolumnsrepeated, 1 when absent
RepeatCount(cell) ==
    IF Truthy(cell.repeat) /\ ParseInt(cell.repeat).ok THEN ParseInt(cell.repeat).val
    ELSE 1

\* The spreadsheet column of the cell at position o: 1 plus the columns the
\* cells before it in its row stand for
ExactColumn(doc, o) ==
    LET row == doc.sheets[o[1]].rows[o[2]]
        Sum[j \in 0..(o[3] - 1)] ==
          IF j = 0 THEN 0 ELSE RepeatCount(row[j]) + Sum[j - 1]
    IN 1 + Sum[o[3] - 1]

\* The column the walk of _create_sanitized_ods gives the cell at position
\* o: col_num counts one per element of the row
WalkColumn(o) == o[3]

\* C21: every ODS formula fragment is recorded at its exact address: its
\* column is 1 plus the sum of the repeat counts of the cells before it in
\* its row, its row is the 1-based row of its table, and the sanitizer's
\* walk gives the same cell the same column.
C21_ExactOdsAddress ==
    FormulasExtracted /\ file_type = "ods" =>
       \A k \in Indices(formula_cells) :
          LET c == formula_cells[k] IN
          /\ c.col = ExactColumn(Document, c.origin)
          /\ c.row = c.origin[2]
          /\ c.col = WalkColumn(c.origin)

Before(a, b) ==
    \/ a[1] < b[1]
    \/ a[1] = b[1] /\ a[2] < b[2]
    \/ a[1] = b[1] /\ a[2] = b[2] /\ a[3] < b[3]

\* C8: item numbers strictly increase along findings, the findings of the
\* macros come before those of the formulas, and the formula findings are
\* in sheet, row, column order.
C8_ItemNumbersIncrease ==
    \A i, j \in Indices(findings) :
       i < j =>
         /\ findings[i].item_number < findings[j].item_number
         /\ findings[j].cell_reference = NoCell => findings[i].cell_reference = NoCell
         /\ (findings[i].cell_reference # NoCell /\ findings[j].cell_reference # NoCell)
              => Before(findings[i].origin, findings[j].origin)

C8_Witness ==
    /\ Len(findings) = 3
    /\ findings[1].cell_reference = NoCell
    /\ findings[2].cell_reference # NoCell
    /\ findings[3].cell_reference # NoCell

\* the fragments found so far, in discovery order
Fragments ==
    [k \in 1..Len(vba_macros) |-> Request(vba_macros[k].code, vba_macros[k].location)]
    \o [k \in 1..Len(formula_cells) |-> Request(formula_cells[k].formula, formula_cells[k].location)]

Awaiting == pc \in {"await_vba", "await_formula"}

\* C9: the queries issued are the fragments in discovery order, one per
\* fragment, each issued only when every earlier one has returned and its
\* finding has been appended; the findings are the fragments in that order,
\* and a finished scan has one finding per fragment.
C9_OneRequestPerFragment ==
    /\ Len(requests) = Len(findings) + (IF Awaiting THEN 1 ELSE 0)
    /\ Len(requests) <= Len(Fragments)
    /\ \A k \in Indices(requests) : requests[k] = Fragments[k]
    /\ \A k \in Indices(findings) :
         Request(findings[k].code, findings[k].location) = Fragments[k]
    /\ scan_result = "True" => Len(findings) = Len(Fragments)

C9_Witness ==
    /\ scan_result = "True"
    /\ Len(findings) = 3
    /\ IsErrorRationale(findings[1].analysis)
    /\ IsErrorRationale(findings[2].analysis)

\* C10 as stated: no query is issued before the extraction of all
\* fragments, macros and formulas, has finished.
C10_NoRequestBeforeExtraction ==
    requests # <<>> => pc \notin {"vba_loop", "await_vba"}

Rank(p) ==
    CASE p = "main" -> 0
      [] p = "scan_file" -> 1
      [] p = "loaded" -> 2
      [] p \in {"vba_loop", "await_vba"} -> 3
      [] p \in {"formula_loop", "await_formula"} -> 4
      [] p = "scanned" -> 5
      [] p = "reported" -> 6
      [] OTHER -> 7

C10_Order ==
    /\ pc \in {"main", "scan_file", "loaded"} => requests = <<>> /\ vba_macros = <<>>
    /\ pc \in {"main", "scan_file", "loaded", "vba_loop", "await_vba"} =>
         formula_cells = <<>> /\ Len(requests) <= Len(vba_macros)
    /\ pc \in {"formula_loop", "await_formula"} => Len(findings) >= Len(vba_macros)
    /\ Report # AbsentFile =>
         /\ scan_result = "True"
         /\ Len(findings) = Len(vba_macros) + Len(formula_cells)
         /\ Len(requests) = Len(findings)
    /\ pc \in {"reported"} => Report # AbsentFile
    /\ Output # AbsentFile => Report # AbsentFile /\ pc = "exited"

\* C10 amended: the phases follow one another without a backward step, the
\* macros being extracted and classified before the formulas are extracted:
\* a macro query only after the macro extraction, a formula query only after
\* every macro is classified and the formulas are extracted, the report only
\* after every fragment is classified, the sanitized copy only after the
\* report is written.
C10_PhasesInOrder ==
    []C10_Order /\ [][Rank(pc') >= Rank(pc)]_vars

C10_Witness ==
    /\ SanitizedOK
    /\ Len(vba_macros) >= 1
    /\ Len(formula_cells) >= 1
    /\ Report # AbsentFile

\* C18: create_sanitized_copy starts only when the report is on the disk,
\* it always returns (True or False, no exception ends the run), and it
\* leaves the report file as it was, also when writing the copy fails.
C18_SanitizeFailureKeepsReport ==
    /\ [](sanitize_result = "False" => pc = "exited" /\ Report.kind = "report")
    /\ [][pc = "reported" =>
            /\ Report.kind = "report"
            /\ Report' = Report
            /\ sanitize_result' \in {"True", "False"}
            /\ pc' = "exited"]_vars

\* the copy could not be written: a partial file is left, the report is there
C18_Witness ==
    /\ pc = "exited"
    /\ sanitize_result = "False"
    /\ Output = PartialFile
    /\ Report.kind = "report"
    /\ Report.report.total > 0

\* C22: when create_sanitized_copy has returned False and a spreadsheet is
\* at the sanitized path, every finding below the threshold that has a
\* cell is redacted in it.
C22_NoUnredactedCopyLeft ==
    pc = "exited" /\ sanitize_result = "False" /\ Output.kind = "spreadsheet" =>
       \A i \in CellFindings :
          findings[i].score < remove_threshold =>
             RedactedAs(CellAt(Output.document, findings[i].origin),
                        findings[i].item_number)

-----------------------------------------------------------------------------
(* Properties of generate_markdown_report (ReportSpec) *)

\* C11: every report lists one entry per finding, ordered by ascending
\* score, entries of equal score by ascending item_number, whatever the
\* order of the findings list is.
C11_SortedByScoreThenItem ==
    \A k \in Indices(reports) :
       LET e == reports[k].entries IN
       /\ Len(e) = Len(findings)
       /\ { e[i].item_number : i \in Indices(e) }
            = { findings[i].item_number : i \in Indices(findings) }
       /\ \A i, j \in Indices(e) :
             i < j => \/ e[i].score < e[j].score
                      \/ e[i].score = e[j].score /\ e[i].item_number < e[j].item_number

\* how many findings have a score in lo..hi
InBand(lo, hi) ==
    Cardinality({ i \in Indices(findings) :
                    lo <= findings[i].score /\ findings[i].score <= hi })

\* C16: the summary counts of a report are the numbers of findings with
\* score in 1..3, 4..6, 7..9 and 10, they sum to the total item count, and
\* the below-threshold count is the number of findings with
\* score < remove_threshold.
C16_SummaryCounts ==
    \A k \in Indices(reports) :
       LET r == reports[k] IN
       /\ r.malicious = InBand(1, 3)
       /\ r.suspicious = InBand(4, 6)
       /\ r.risky = InBand(7, 9)
       /\ r.safe = InBand(10, 10)
       /\ r.total = Len(findings)
       /\ r.malicious + r.suspicious + r.risky + r.safe = r.total
       /\ r.to_remove = Cardinality({ i \in Indices(findings) :
                                        findings[i].score < remove_threshold })
       /\ r.threshold = remove_threshold

\* a report over findings of all four bands, one of them with a score equal
\* to the threshold
C16_Witness ==
    /\ reports # <<>>
    /\ reports[1].malicious > 0
    /\ reports[1].suspicious > 0
    /\ reports[1].risky > 0
    /\ reports[1].safe > 0
    /\ reports[1].to_remove = 1
    /\ \E i \in Indices(findings) : findings[i].score = remove_threshold

\* C17: two calls of generate_markdown_report on the same findings, file
\* name and threshold return the same text.
C17_ReportDeterministic ==
    \A j, k \in Indices(reports) : reports[j] = reports[k]

-----------------------------------------------------------------------------
(* Properties of create_sanitized_copy called on its own (SanitizeSpec) *)

BelowThresholdCells ==
    { i \in Indices(findings) : ShouldRemove(findings[i], remove_threshold) }

\* C12: a sanitizer run that succeeds reports as its count of redacted
\* cells the number of findings with score < remove_threshold and a
\* cell_reference.
C12_CountEqualsBelowThreshold ==
    \A k \in Indices(copies) :
       copies[k].returned = "True" =>
          copies[k].items_removed = Cardinality(BelowThresholdCells)

\* What one call of create_sanitized_copy leaves at the output path when
\* nothing but the input is on the disk and no I/O fails
FirstCopy ==
    create_sanitized_copy(
        [CheckerState EXCEPT !.disk = [p \in DOMAIN disk |->
                                         IF p = input_file THEN disk[p] ELSE AbsentFile]],
        sanitized_path(input_file), "ok", FALSE).disk[sanitized_path(input_file)]

\* C13: calls of create_sanitized_copy on the same input, findings and
\* remove_threshold that succeed leave the same copy and print the same
\* count, and each leaves the copy that a first call on a disk holding
\* only the input leaves: earlier calls, failed ones included, change
\* nothing.
C13_Idempotent ==
    /\ \A j, k \in Indices(copies) :
          copies[j].returned = "True" /\ copies[k].returned = "True" =>
             /\ copies[j].file = copies[k].file
             /\ copies[j].items_removed = copies[k].items_removed
    /\ \A k \in Indices(copies) :
          copies[k].returned = "True" => copies[k].file = FirstCopy

\* two calls succeeded, each redacted a cell
C13_Witness ==
    /\ Len(copies) = 2
    /\ copies[1].returned = "True"
    /\ copies[2].returned = "True"
    /\ copies[2].items_removed > 0
    /\ copies[2].file # Original

-----------------------------------------------------------------------------
(* Properties of the classification call (LiveSpec) *)

\* C14: every classification call that is awaited eventually returns,
\* also when the oracle never answers.
C14_EveryCallReturns ==
    (pc \in {"await_vba", "await_formula"}) ~> (pc \notin {"await_vba", "await_formula"})

-----------------------------------------------------------------------------
(* Properties of analyze_code_with_claude called on its own (ParseSpec) *)

\* the reply is one message with one text block
OneText == Len(reply) = 1 /\ Len(reply[1].content) = 1

ReplyText == reply[1].content[1].text

\* the lines of a reply text, as the code sees them
LinesOf(text) == Split(Strip(text), NL)

ScoreLines(text) ==
    { i \in Indices(LinesOf(text)) : StartsWith(LinesOf(text)[i], "SCORE:") }

AnalysisLines(text) ==
    { i \in Indices(LinesOf(text)) : StartsWith(LinesOf(text)[i], "ANALYSIS:") }

Last(S) == CHOOSE i \in S : \A j \in S : j <= i

First(S) == CHOOSE i \in S : \A j \in S : i <= j

RECURSIVE TextsOf(_)
TextsOf(messages) ==
    IF messages = <<>> THEN <<>>
    ELSE (IF Head(messages).type = "AssistantMessage"
          THEN LET blocks == SelectSeq(Head(messages).content,
                                       LAMBDA b : b.type = "TextBlock")
               IN [i \in 1..Len(blocks) |-> blocks[i].text]
          ELSE <<>>) \o TextsOf(Tail(messages))

\* The lines of the whole reply, in order
ReplyLines == Flatten([i \in 1..Len(TextsOf(reply)) |-> LinesOf(TextsOf(reply)[i])])

\* What follows "SCORE:" on a line
ScoreField(line) == ParseInt(Strip(Remove(line, "SCORE:")))

\* The lines "SCORE: <integer>"
IntegerScoreLines ==
    { i \in Indices(ReplyLines) :
        StartsWith(ReplyLines[i], "SCORE:") /\ ScoreField(ReplyLines[i]).ok }

\* C19: for a reply with at least one line "SCORE: <integer n>" the score
\* returned is the n of the first such line, clamped into 1..10, whatever
\* SCORE lines follow it.
C19_FirstScoreLineWins ==
    pc = "analyzed" /\ IntegerScoreLines # {} =>
       LET n == ScoreField(ReplyLines[First(IntegerScoreLines)]).val IN
       call.score = Max(1, Min(10, n))

====
